---- MODULE Spec2Model ----
(***************************************************************************)
(* Lead-outreach CRM backend (Dylanb2006/crm-backend).                     *)
(*                                                                         *)
(* The store (tables leads and email_log), the mail transport and the      *)
(* clock are the environment; every HTTP handler and the scheduled sweep   *)
(* is a process that runs from one await to the next in one step.  A store *)
(* call takes effect in the step that issues it.                           *)
(*                                                                         *)
(* Sources: src/backend/server.js (sendEmail, logEmail, the single-lead    *)
(* send endpoint, the scheduled sweep) and src/unnamed/part_000 (bulk      *)
(* send, follow-ups, and its own single-lead send endpoint).               *)
(***************************************************************************)
EXTENDS Integers, Sequences, FiniteSets, TLC

VARIABLES leads, email_log, now, requests, sendV1, sendV2, bulk, sweep, fu, sfu,
          composer

vars == <<leads, email_log, now, requests, sendV1, sendV2, bulk, sweep, fu, sfu,
          composer>>

----------------------------------------------------------------------------
(* Bounds of the model *)

\* rows of the leads table
NumLeads == 2
\* longest lead list a bulk request carries
MaxBatch == 2
\* requests and sweep runs started in one behaviour
MaxRequests == 2
\* last instant of the clock, in days
MaxNow == 9
\* longest log the follow-ups start from
MaxLog == 2

(* Program constants *)

\* 7 * 24 * 60 * 60 * 1000 ms, in days
SevenDays == 7

----------------------------------------------------------------------------
(* Values *)

\* an absent email (null, undefined or ''): every test of the code on it is
\* a truthiness test, which the three fail alike
NoEmail == <<>>
\* a null last_contacted_date
NullDate == -1

\* strings are sequences of characters, so that toLowerCase is computed
LowerChar(c) ==
    CASE c = "A" -> "a"
      [] c = "B" -> "b"
      [] c = "X" -> "x"
      [] OTHER -> c

toLowerCase(s) == [i \in DOMAIN s |-> LowerChar(s[i])]

\* addresses a caller can put in a bulk request
InputEmails == {NoEmail, <<"a", "@", "x">>, <<"A", "@", "x">>, <<"b", "@", "x">>}
\* addresses of the rows of the leads table
StoredEmails == {NoEmail, <<"a", "@", "x">>, <<"B", "@", "X">>}

LeadIds == 1..NumLeads
\* an id that names no row
MissingId == 0

\* what a call to the transport can do
TransportOutcomes == {"ok", "error", "raise"}
\* what a write to the store can do
WriteOutcomes == {"ok", "error", "raise"}
\* what a read of the store can do
ReadOutcomes == {"ok", "error"}

NoLead == [id |-> MissingId, email |-> NoEmail]

\* resend.emails.send({ to, ... }): the transport accepts no message without
\* a recipient
Deliverable(email, transport) == email # NoEmail \/ transport # "ok"

\* what a handler's record keeps of an outcome: a returned error and a raised
\* exception are both a failure
Kept(outcome) == IF outcome = "ok" THEN "ok" ELSE "failed"

----------------------------------------------------------------------------
(* The store *)

\* supabase.from('email_log').insert(entry): the row is appended unless the
\* store fails
InsertLog(log, entry, outcome) ==
    IF outcome = "ok" THEN Append(log, entry) ELSE log

\* an update that drops the timestamp of the patch
UpdateLeadStatusOnly(table, id, patch, outcome) ==
    IF outcome = "ok" /\ id \in DOMAIN table /\ "status" \in DOMAIN patch
    THEN [table EXCEPT ![id].status = patch.status]
    ELSE table

\* supabase.from('leads').update(patch).eq('id', id)
UpdateLead(table, id, patch, outcome) ==
    IF outcome = "ok" /\ id \in DOMAIN table
    THEN [table EXCEPT ![id] = [f \in DOMAIN table[id] |->
                                   IF f \in DOMAIN patch THEN patch[f] ELSE table[id][f]]]
    ELSE table

----------------------------------------------------------------------------
(* server.js: logEmail and sendEmail *)

\* logEmail: one insert, whose failure (returned or raised) is swallowed
logEmail(log, lead, status, t, outcome) ==
    InsertLog(log, [email |-> lead.email, sent_at |-> t, status |-> status], outcome)

\* sendEmail's log status for a transport outcome: an error object and a raised
\* exception both give 'failed'
sendEmailStatus(transport) == IF transport = "ok" THEN "sent" ELSE "failed"

\* a sendEmail that reports success whatever the transport did
sendEmailResultAlwaysSuccess(lead, transport) ==
    [success |-> TRUE, email |-> lead.email]

\* a sendEmail without the test of the returned error object
sendEmailResultIgnoringError(lead, transport) ==
    [success |-> transport # "raise", email |-> lead.email]

\* sendEmail's result record
sendEmailResult(lead, transport) ==
    [success |-> transport = "ok", email |-> lead.email]

----------------------------------------------------------------------------
(* Requests *)

\* a handler that is not running can take the next request
Free(h) == h.pc \in {"idle", "done"}

CanStart == requests < MaxRequests

\* .select('*').eq('id', id).single(): the row, or an error when the store
\* fails or no row has the id
SelectLead(table, id, outcome) ==
    IF outcome = "ok" /\ id \in DOMAIN table
    THEN [error |-> FALSE, data |-> [id |-> id, email |-> table[id].email]]
    ELSE [error |-> TRUE, data |-> NoLead]

IdleSend ==
    [pc |-> "idle", id |-> MissingId, lead |-> NoLead, issued |-> NullDate,
     transport |-> "none", log |-> "none", update |-> "none",
     success |-> FALSE, http |-> 0, attempts |-> 0, logged |-> 0]

----------------------------------------------------------------------------
(* server.js: POST /api/contacts/:id/send-email *)

\* the request arrives, the lead is read, and sendEmail issues the delivery
StartSendV1(id, read) ==
    /\ CanStart
    /\ Free(sendV1)
    /\ requests' = requests + 1
    /\ LET got == SelectLead(leads, id, read) IN
       sendV1' = IF got.error
                 THEN [IdleSend EXCEPT !.pc = "done", !.id = id, !.http = 404]
                 ELSE [IdleSend EXCEPT !.pc = "sending", !.id = id, !.lead = got.data,
                                       !.issued = now, !.attempts = 1]
    /\ UNCHANGED <<leads, email_log, now, sendV2, bulk, sweep, fu, sfu, composer>>

\* resend.emails.send returns or raises; sendEmail calls logEmail
SendReturnsV1(transport, write) ==
    /\ sendV1.pc = "sending"
    /\ Deliverable(sendV1.lead.email, transport)
    /\ email_log' = logEmail(email_log, sendV1.lead, sendEmailStatus(transport), now, write)
    /\ sendV1' = [sendV1 EXCEPT !.pc = "logged", !.transport = Kept(transport),
                                !.log = Kept(write),
                                !.success = sendEmailResult(sendV1.lead, transport).success,
                                !.logged = Len(email_log') - Len(email_log)]
    /\ UNCHANGED <<leads, now, requests, sendV2, bulk, sweep, fu, sfu, composer>>

\* logEmail and sendEmail return; on success the lead is updated; the result
\* is the response.  An update that raises is not caught by the handler.
LogReturnsV1(write) ==
    /\ sendV1.pc = "logged"
    /\ IF sendV1.success
       THEN /\ leads' = UpdateLead(leads, sendV1.id, [last_contacted_date |-> now], write)
            /\ sendV1' = IF write = "raise"
                         THEN [sendV1 EXCEPT !.pc = "crashed", !.update = Kept(write)]
                         ELSE [sendV1 EXCEPT !.pc = "done", !.update = Kept(write), !.http = 200]
       ELSE /\ write = "ok"
            /\ leads' = leads
            /\ sendV1' = [sendV1 EXCEPT !.pc = "done", !.http = 200]
    /\ UNCHANGED <<email_log, now, requests, sendV2, bulk, sweep, fu, sfu, composer>>

----------------------------------------------------------------------------
(* part_000: POST /api/contacts/:id/send-email *)

\* the request arrives, the lead is read, and the delivery is issued
StartSendV2(id, read) ==
    /\ CanStart
    /\ Free(sendV2)
    /\ requests' = requests + 1
    /\ LET got == SelectLead(leads, id, read) IN
       sendV2' = IF got.error
                 THEN [IdleSend EXCEPT !.pc = "done", !.id = id, !.http = 404]
                 ELSE [IdleSend EXCEPT !.pc = "sending", !.id = id, !.lead = got.data,
                                       !.issued = now, !.attempts = 1]
    /\ UNCHANGED <<leads, email_log, now, sendV1, bulk, sweep, fu, sfu, composer>>

\* the delivery returns or raises: a failure is the response; a success
\* updates the lead, and an update that raises lands in the catch
SendReturnsV2(transport, write) ==
    /\ sendV2.pc = "sending"
    /\ Deliverable(sendV2.lead.email, transport)
    /\ IF transport = "ok"
       THEN /\ leads' = UpdateLead(leads, sendV2.id,
                                   [last_contacted_date |-> now, status |-> "contacted"], write)
            /\ sendV2' = IF write = "raise"
                         THEN [sendV2 EXCEPT !.pc = "done", !.transport = Kept(transport),
                                             !.update = Kept(write), !.http = 200]
                         ELSE [sendV2 EXCEPT !.pc = "updated", !.transport = Kept(transport),
                                             !.update = Kept(write)]
       ELSE /\ write = "ok"
            /\ leads' = leads
            /\ sendV2' = [sendV2 EXCEPT !.pc = "done", !.transport = Kept(transport),
                                        !.http = 200]
    /\ UNCHANGED <<email_log, now, requests, sendV1, bulk, sweep, fu, sfu, composer>>

\* the update has returned: the log entry is inserted, and an insert that
\* raises lands in the catch
UpdateReturnsV2(write) ==
    /\ sendV2.pc = "updated"
    /\ email_log' = InsertLog(email_log,
                              [email |-> sendV2.lead.email, sent_at |-> now, status |-> "sent"],
                              write)
    /\ sendV2' = [sendV2 EXCEPT !.pc = "done", !.log = Kept(write), !.http = 200,
                                !.success = (write # "raise"),
                                !.logged = Len(email_log') - Len(email_log)]
    /\ UNCHANGED <<leads, now, requests, sendV1, bulk, sweep, fu, sfu, composer>>

----------------------------------------------------------------------------
(* part_000: POST /api/send-bulk-emails *)

\* the lead lists a request body can carry; the property may be absent
BulkBodies ==
    {[present |-> FALSE, leads |-> <<>>]} \cup
    {[present |-> TRUE, leads |-> l] :
        l \in UNION {[1..n -> [email : InputEmails]] : n \in 0..MaxBatch}}

\* a loop without the test of the email
NextWithoutTest(list, i) == i

\* the first index from i on whose lead has an email, or Len(list) + 1
RECURSIVE NextWithEmail(_, _)
NextWithEmail(list, i) ==
    IF i > Len(list) \/ list[i].email # NoEmail THEN i
    ELSE NextWithEmail(list, i + 1)

\* a guard that forgets the empty list
NoLeadsProvidedMissingOnly(body) == ~body.present

\* if (!leads || leads.length === 0)
NoLeadsProvided(body) == ~body.present \/ Len(body.leads) = 0

IdleBulk ==
    [pc |-> "idle", list |-> <<>>, i |-> 0, sent |-> 0, failed |-> 0, http |-> 0,
     attempts |-> 0, logged |-> 0, tfails |-> 0, noEmail |-> 0, storeFailed |-> FALSE]

\* the request arrives: 400 without leads; else the loop runs to its first
\* delivery, counting the leads without email as failed on the way
StartBulk(body) ==
    /\ CanStart
    /\ Free(bulk)
    /\ requests' = requests + 1
    /\ bulk' = IF NoLeadsProvided(body)
               THEN [IdleBulk EXCEPT !.pc = "done", !.http = 400]
               ELSE LET j == NextWithEmail(body.leads, 1) IN
                    IF j > Len(body.leads)
                    THEN [IdleBulk EXCEPT !.pc = "done", !.list = body.leads, !.i = j,
                                          !.failed = j - 1, !.noEmail = j - 1, !.http = 200]
                    ELSE [IdleBulk EXCEPT !.pc = "sending", !.list = body.leads, !.i = j,
                                          !.failed = j - 1, !.noEmail = j - 1,
                                          !.attempts = 1]
    /\ UNCHANGED <<leads, email_log, now, sendV1, sendV2, sweep, fu, sfu, composer>>

\* a bulk send that records the contact in the lead rows of the address
BulkSendReturnsUpdatingLead(transport, write) ==
    /\ bulk.pc = "sending"
    /\ IF transport = "ok"
       THEN /\ email_log' = InsertLog(email_log,
                                      [email |-> bulk.list[bulk.i].email, sent_at |-> now,
                                       status |-> "sent"], write)
            /\ leads' = [id \in DOMAIN leads |->
                            IF leads[id].email = bulk.list[bulk.i].email
                            THEN [leads[id] EXCEPT !.last_contacted_date = now]
                            ELSE leads[id]]
            /\ bulk' = [bulk EXCEPT !.pc = "pause", !.sent = @ + 1,
                                    !.failed = IF write = "raise" THEN @ + 1 ELSE @,
                                    !.storeFailed = @ \/ write # "ok",
                                    !.logged = @ + Len(email_log') - Len(email_log)]
       ELSE /\ write = "ok"
            /\ email_log' = email_log
            /\ leads' = leads
            /\ bulk' = [bulk EXCEPT !.pc = "pause", !.failed = @ + 1, !.tfails = @ + 1]
    /\ UNCHANGED <<now, requests, sendV1, sendV2, sweep, fu, sfu, composer>>

\* a bulk loop that goes on to the next delivery without the pause
BulkSendReturnsWithoutPause(transport, write) ==
    /\ bulk.pc = "sending"
    /\ LET j == NextWithEmail(bulk.list, bulk.i + 1)
           skipped == j - (bulk.i + 1)
           next == IF j > Len(bulk.list)
                   THEN [bulk EXCEPT !.pc = "done", !.i = j, !.failed = @ + skipped,
                                     !.noEmail = @ + skipped, !.http = 200]
                   ELSE [bulk EXCEPT !.pc = "sending", !.i = j, !.failed = @ + skipped,
                                     !.noEmail = @ + skipped, !.attempts = @ + 1]
       IN IF transport = "ok"
          THEN /\ email_log' = InsertLog(email_log,
                                         [email |-> bulk.list[bulk.i].email, sent_at |-> now,
                                          status |-> "sent"], write)
               /\ bulk' = [next EXCEPT !.sent = @ + 1,
                                       !.failed = IF write = "raise" THEN @ + 1 ELSE @,
                                       !.storeFailed = @ \/ write # "ok",
                                       !.logged = @ + Len(email_log') - Len(email_log)]
          ELSE /\ write = "ok"
               /\ email_log' = email_log
               /\ bulk' = [next EXCEPT !.failed = @ + 1, !.tfails = @ + 1]
    /\ UNCHANGED <<leads, now, requests, sendV1, sendV2, sweep, fu, sfu, composer>>

\* the delivery returns or raises.  An error object or an exception counts
\* the lead as failed; a success counts it as sent and inserts the log entry,
\* and an insert that raises lands in the same catch.  Then the pause starts.
BulkSendReturns(transport, write) ==
    /\ bulk.pc = "sending"
    /\ IF transport = "ok"
       THEN /\ email_log' = InsertLog(email_log,
                                      [email |-> bulk.list[bulk.i].email, sent_at |-> now,
                                       status |-> "sent"], write)
            /\ bulk' = [bulk EXCEPT !.pc = "pause", !.sent = @ + 1,
                                    !.failed = IF write = "raise" THEN @ + 1 ELSE @,
                                    !.storeFailed = @ \/ write # "ok",
                                    !.logged = @ + Len(email_log') - Len(email_log)]
       ELSE /\ write = "ok"
            /\ email_log' = email_log
            /\ bulk' = [bulk EXCEPT !.pc = "pause", !.failed = @ + 1, !.tfails = @ + 1]
    /\ UNCHANGED <<leads, now, requests, sendV1, sendV2, sweep, fu, sfu, composer>>

\* the pause has elapsed: the loop runs to its next delivery or to the response
BulkPauseDone ==
    /\ bulk.pc = "pause"
    /\ LET j == NextWithEmail(bulk.list, bulk.i + 1)
           skipped == j - (bulk.i + 1) IN
       bulk' = IF j > Len(bulk.list)
               THEN [bulk EXCEPT !.pc = "done", !.i = j, !.failed = @ + skipped,
                                 !.noEmail = @ + skipped, !.http = 200]
               ELSE [bulk EXCEPT !.pc = "sending", !.i = j, !.failed = @ + skipped,
                                 !.noEmail = @ + skipped, !.attempts = @ + 1]
    /\ UNCHANGED <<leads, email_log, now, requests, sendV1, sendV2, sweep, fu, sfu, composer>>

----------------------------------------------------------------------------
(* server.js: runAutomatedEmailSender, the scheduled sweep *)

\* the sweep runs that can be in flight: the schedule has no guard
RunIds == {1, 2}

\* a select without the filter on last_contacted_date
StaleWithoutFilter(row, sevenDaysAgo) == TRUE

\* last_contacted_date.is.null, last_contacted_date.lt.sevenDaysAgo
Stale(row, sevenDaysAgo) ==
    row.last_contacted_date = NullDate \/ row.last_contacted_date < sevenDaysAgo

\* the rows the select returns, in the order of their ids
RECURSIVE StaleLeadsFrom(_, _, _)
StaleLeadsFrom(table, sevenDaysAgo, id) ==
    IF id \notin DOMAIN table THEN <<>>
    ELSE (IF Stale(table[id], sevenDaysAgo)
          THEN <<[id |-> id, email |-> table[id].email]>> ELSE <<>>)
         \o StaleLeadsFrom(table, sevenDaysAgo, id + 1)

SelectStale(table, t, outcome) ==
    IF outcome = "ok" THEN StaleLeadsFrom(table, t - SevenDays, 1) ELSE <<>>

\* a run's record; read, started and table keep the outcome of the select, the
\* instant of Date.now() and the leads table the select saw
IdleSweep ==
    [pc |-> "idle", list |-> <<>>, i |-> 0, sent |-> 0, failed |-> 0,
     issued |-> NullDate, transport |-> "none", log |-> "none", update |-> "none",
     success |-> FALSE, attempts |-> 0, logged |-> 0, storeFailed |-> FALSE,
     read |-> "none", started |-> NullDate, table |-> <<>>]

\* a trigger with a guard: no run starts while a run is in flight
StartSweepGuarded(r, read) ==
    /\ CanStart
    /\ \A q \in RunIds : Free(sweep[q])
    /\ requests' = requests + 1
    /\ LET list == SelectStale(leads, now, read)
           j == NextWithEmail(list, 1)
           run == [IdleSweep EXCEPT !.read = read, !.started = now, !.table = leads] IN
       sweep' = [sweep EXCEPT ![r] =
                    IF j > Len(list)
                    THEN [run EXCEPT !.pc = "done", !.list = list, !.i = j]
                    ELSE [run EXCEPT !.pc = "sending", !.list = list, !.i = j,
                                     !.issued = now, !.attempts = 1]]
    /\ UNCHANGED <<leads, email_log, now, sendV1, sendV2, bulk, fu, sfu, composer>>

\* the trigger fires: the stale leads are read, and the loop runs to its first
\* delivery; a lead without email is passed over (continue)
StartSweep(r, read) ==
    /\ CanStart
    /\ Free(sweep[r])
    /\ requests' = requests + 1
    /\ LET list == SelectStale(leads, now, read)
           j == NextWithEmail(list, 1)
           run == [IdleSweep EXCEPT !.read = read, !.started = now, !.table = leads] IN
       sweep' = [sweep EXCEPT ![r] =
                    IF j > Len(list)
                    THEN [run EXCEPT !.pc = "done", !.list = list, !.i = j]
                    ELSE [run EXCEPT !.pc = "sending", !.list = list, !.i = j,
                                     !.issued = now, !.attempts = 1]]
    /\ UNCHANGED <<leads, email_log, now, sendV1, sendV2, bulk, fu, sfu, composer>>

\* resend.emails.send returns or raises; sendEmail calls logEmail
SweepSendReturns(r, transport, write) ==
    /\ sweep[r].pc = "sending"
    /\ email_log' = logEmail(email_log, sweep[r].list[sweep[r].i],
                             sendEmailStatus(transport), now, write)
    /\ sweep' = [sweep EXCEPT ![r] =
                    [@ EXCEPT !.pc = "logged", !.transport = Kept(transport),
                              !.log = Kept(write), !.storeFailed = @ \/ write # "ok",
                              !.success = sendEmailResult(sweep[r].list[sweep[r].i],
                                                          transport).success,
                              !.logged = @ + Len(email_log') - Len(email_log)]]
    /\ UNCHANGED <<leads, now, requests, sendV1, sendV2, bulk, fu, sfu, composer>>

\* sendEmail returns: a success is counted and the lead updated, a failure is
\* counted; then the pause starts.  An update that raises ends the run.
SweepLogReturns(r, write) ==
    /\ sweep[r].pc = "logged"
    /\ IF sweep[r].success
       THEN /\ leads' = UpdateLead(leads, sweep[r].list[sweep[r].i].id,
                                   [last_contacted_date |-> now], write)
            /\ sweep' = [sweep EXCEPT ![r] =
                            [@ EXCEPT !.pc = IF write = "raise" THEN "crashed" ELSE "pause",
                                      !.sent = @ + 1, !.update = Kept(write)]]
       ELSE /\ write = "ok"
            /\ leads' = leads
            /\ sweep' = [sweep EXCEPT ![r] =
                            [@ EXCEPT !.pc = "pause", !.failed = @ + 1, !.update = "none"]]
    /\ UNCHANGED <<email_log, now, requests, sendV1, sendV2, bulk, fu, sfu, composer>>

\* a sweep that counts the leads without email as failed, as the bulk send does
SweepPauseDoneCountingFailed(r) ==
    /\ sweep[r].pc = "pause"
    /\ LET j == NextWithEmail(sweep[r].list, sweep[r].i + 1)
           skipped == j - (sweep[r].i + 1) IN
       sweep' = [sweep EXCEPT ![r] =
                    IF j > Len(@.list)
                    THEN [@ EXCEPT !.pc = "done", !.i = j, !.failed = @ + skipped]
                    ELSE [@ EXCEPT !.pc = "sending", !.i = j, !.issued = now,
                                   !.failed = @ + skipped, !.attempts = @ + 1]]
    /\ UNCHANGED <<leads, email_log, now, requests, sendV1, sendV2, bulk, fu, sfu, composer>>

\* the pause has elapsed: the loop runs to its next delivery or to its end
SweepPauseDone(r) ==
    /\ sweep[r].pc = "pause"
    /\ LET j == NextWithEmail(sweep[r].list, sweep[r].i + 1) IN
       sweep' = [sweep EXCEPT ![r] =
                    IF j > Len(@.list)
                    THEN [@ EXCEPT !.pc = "done", !.i = j]
                    ELSE [@ EXCEPT !.pc = "sending", !.i = j, !.issued = now,
                                   !.attempts = @ + 1]]
    /\ UNCHANGED <<leads, email_log, now, requests, sendV1, sendV2, bulk, fu, sfu, composer>>

----------------------------------------------------------------------------
(* part_000: unconverted contacts (GET /api/follow-ups, POST /api/send-follow-ups) *)

\* supabase.from('leads').select('email'): data is null when the store fails,
\* and the handlers read (leads || [])
SelectLeadEmails(table, outcome) ==
    IF outcome = "ok" THEN {table[id].email : id \in DOMAIN table} ELSE {}

\* a lead set without the lowercasing
RepliedEmailsExact(emails) == emails \ {NoEmail}

\* new Set((leads || []).map(l => l.email?.toLowerCase()).filter(Boolean))
RepliedEmails(emails) == {toLowerCase(e) : e \in emails \ {NoEmail}}

\* the ascending order
RECURSIVE OrdersAsc(_, _)
OrdersAsc(log, S) ==
    IF S = {} THEN {<<>>}
    ELSE UNION {{<<log[i]>> \o rest : rest \in OrdersAsc(log, S \ {i})} :
                  i \in {j \in S : \A k \in S : log[j].sent_at <= log[k].sent_at}}

\* .order('sent_at', { ascending: false }): every order of the rows by
\* descending sent_at; the store picks the order of rows with equal sent_at
RECURSIVE OrdersDesc(_, _)
OrdersDesc(log, S) ==
    IF S = {} THEN {<<>>}
    ELSE UNION {{<<log[i]>> \o rest : rest \in OrdersDesc(log, S \ {i})} :
                  i \in {j \in S : \A k \in S : log[j].sent_at >= log[k].sent_at}}

\* supabase.from('email_log').select('*').order(...): the results the store
\* can return; data is null when it fails, and the handlers read (emailLogs || [])
SelectLogs(log, outcome) ==
    IF outcome = "ok" THEN OrdersDesc(log, DOMAIN log) ELSE {<<>>}

\* the position in the Map (a sequence, in insertion order) of a key, or 0
KeyIndex(map, key) ==
    IF \E n \in DOMAIN map : map[n].key = key
    THEN CHOOSE n \in DOMAIN map : map[n].key = key
    ELSE 0

\* a scan that counts only the entries spelled as the first one
RECURSIVE ScanCountingExactCase(_, _, _)
ScanCountingExactCase(logs, replied, map) ==
    IF logs = <<>> THEN map
    ELSE LET log == Head(logs)
             email == toLowerCase(log.email)
             n == KeyIndex(map, email)
         IN  IF log.email = NoEmail \/ email \in replied
             THEN ScanCountingExactCase(Tail(logs), replied, map)
             ELSE IF n = 0
             THEN ScanCountingExactCase(Tail(logs), replied,
                                        Append(map, [key |-> email, email |-> log.email,
                                                     sent_at |-> log.sent_at,
                                                     status |-> log.status,
                                                     email_count |-> 1]))
             ELSE ScanCountingExactCase(Tail(logs), replied,
                                        IF log.email = map[n].email
                                        THEN [map EXCEPT ![n].email_count = @ + 1]
                                        ELSE map)

\* GET /api/follow-ups: the scan of the ordered log into emailMap.  An entry
\* is { ...log, email_count }, kept under its lowercased address.
RECURSIVE ScanCounting(_, _, _)
ScanCounting(logs, replied, map) ==
    IF logs = <<>> THEN map
    ELSE LET log == Head(logs)
             email == toLowerCase(log.email)
             n == KeyIndex(map, email)
         IN  IF log.email = NoEmail \/ email \in replied
             THEN ScanCounting(Tail(logs), replied, map)
             ELSE IF n = 0
             THEN ScanCounting(Tail(logs), replied,
                               Append(map, [key |-> email, email |-> log.email,
                                            sent_at |-> log.sent_at, status |-> log.status,
                                            email_count |-> 1]))
             ELSE ScanCounting(Tail(logs), replied,
                               [map EXCEPT ![n].email_count = @ + 1])

\* POST /api/send-follow-ups: the same scan without the count
RECURSIVE ScanFirst(_, _, _)
ScanFirst(logs, replied, map) ==
    IF logs = <<>> THEN map
    ELSE LET log == Head(logs)
             email == toLowerCase(log.email)
         IN  IF log.email = NoEmail \/ email \in replied
             THEN ScanFirst(Tail(logs), replied, map)
             ELSE IF KeyIndex(map, email) = 0
             THEN ScanFirst(Tail(logs), replied,
                            Append(map, [key |-> email, email |-> log.email,
                                         sent_at |-> log.sent_at, status |-> log.status]))
             ELSE ScanFirst(Tail(logs), replied, map)

IdleFU ==
    [pc |-> "idle", readLeads |-> "none", readLogs |-> "none", replied |-> {},
     seen |-> 0, result |-> <<>>, http |-> 0]

\* the request arrives and the lead emails are read
StartFollowUps(read) ==
    /\ CanStart
    /\ Free(fu)
    /\ requests' = requests + 1
    /\ fu' = [IdleFU EXCEPT !.pc = "reading", !.readLeads = read,
                            !.replied = RepliedEmails(SelectLeadEmails(leads, read))]
    /\ UNCHANGED <<leads, email_log, now, sendV1, sendV2, bulk, sweep, sfu, composer>>

\* the log is read, scanned, and the values of emailMap are the response
FollowUpsRespond(read) ==
    /\ fu.pc = "reading"
    /\ \E logs \in SelectLogs(email_log, read) :
          fu' = [fu EXCEPT !.pc = "done", !.readLogs = read, !.http = 200,
                           !.seen = Len(email_log),
                           !.result = ScanCounting(logs, fu.replied, <<>>)]
    /\ UNCHANGED <<leads, email_log, now, requests, sendV1, sendV2, bulk, sweep, sfu, composer>>

IdleSFU ==
    [pc |-> "idle", readLeads |-> "none", readLogs |-> "none", replied |-> {},
     seen |-> 0, list |-> <<>>, i |-> 0, sent |-> 0, failed |-> 0, http |-> 0,
     attempts |-> 0, logged |-> 0, tfails |-> 0]

\* the request arrives and the lead emails are read
StartSendFollowUps(read) ==
    /\ CanStart
    /\ Free(sfu)
    /\ requests' = requests + 1
    /\ sfu' = [IdleSFU EXCEPT !.pc = "reading", !.readLeads = read,
                              !.replied = RepliedEmails(SelectLeadEmails(leads, read))]
    /\ UNCHANGED <<leads, email_log, now, sendV1, sendV2, bulk, sweep, fu, composer>>

\* the log is read and scanned; the loop over the unreplied contacts runs to
\* its first delivery (every contact of the scan has an email)
SendFollowUpsRead(read) ==
    /\ sfu.pc = "reading"
    /\ \E logs \in SelectLogs(email_log, read) :
          LET unreplied == ScanFirst(logs, sfu.replied, <<>>)
              j == NextWithEmail(unreplied, 1) IN
          sfu' = IF j > Len(unreplied)
                 THEN [sfu EXCEPT !.pc = "done", !.readLogs = read, !.list = unreplied,
                                  !.seen = Len(email_log),
                                  !.i = j, !.failed = j - 1, !.http = 200]
                 ELSE [sfu EXCEPT !.pc = "sending", !.readLogs = read, !.list = unreplied,
                                  !.seen = Len(email_log),
                                  !.i = j, !.failed = j - 1, !.attempts = 1]
    /\ UNCHANGED <<leads, email_log, now, requests, sendV1, sendV2, bulk, sweep, fu, composer>>

\* the delivery returns or raises: as in the bulk send, with status 'follow-up'
SendFollowUpsSendReturns(transport, write) ==
    /\ sfu.pc = "sending"
    /\ IF transport = "ok"
       THEN /\ email_log' = InsertLog(email_log,
                                      [email |-> sfu.list[sfu.i].email, sent_at |-> now,
                                       status |-> "follow-up"], write)
            /\ sfu' = [sfu EXCEPT !.pc = "pause", !.sent = @ + 1,
                                  !.failed = IF write = "raise" THEN @ + 1 ELSE @,
                                  !.logged = @ + Len(email_log') - Len(email_log)]
       ELSE /\ write = "ok"
            /\ email_log' = email_log
            /\ sfu' = [sfu EXCEPT !.pc = "pause", !.failed = @ + 1, !.tfails = @ + 1]
    /\ UNCHANGED <<leads, now, requests, sendV1, sendV2, bulk, sweep, fu, composer>>

\* the pause has elapsed: the loop runs to its next delivery or to the response
SendFollowUpsPauseDone ==
    /\ sfu.pc = "pause"
    /\ LET j == NextWithEmail(sfu.list, sfu.i + 1) IN
       sfu' = IF j > Len(sfu.list)
              THEN [sfu EXCEPT !.pc = "done", !.i = j, !.http = 200]
              ELSE [sfu EXCEPT !.pc = "sending", !.i = j, !.attempts = @ + 1]
    /\ UNCHANGED <<leads, email_log, now, requests, sendV1, sendV2, bulk, sweep, fu, composer>>

----------------------------------------------------------------------------
(* Message composition: EMAIL_TEMPLATES, the template of a lead, its first name *)

\* longest name of a lead, in characters
MaxNameLen == 3

\* a JavaScript value that is undefined or a string (a sequence of characters)
Undefined == [defined |-> FALSE, chars |-> <<>>]

Str(s) == [defined |-> TRUE, chars |-> s]

\* undefined and '' are falsy, every other string is truthy
Truthy(v) == v.defined /\ v.chars # <<>>

\* the own keys of EMAIL_TEMPLATES
TemplateKeys == {"divorce", "probate", "foreclosure", "taxlien", "outofstate"}

\* keys every object literal inherits from Object.prototype
ObjectPrototypeKeys == {"constructor", "toString", "__proto__"}

\* the property keys lead.type can give: an absent type reads the key
\* 'undefined'
LeadTypes == TemplateKeys \cup ObjectPrototypeKeys \cup {"undefined", "Probate", "other"}

\* EMAIL_TEMPLATES[key].subject
TemplateSubject(key) ==
    CASE key = "divorce" -> "We Can Help During This Transition"
      [] key = "probate" -> "Assistance with Your Inherited Property"
      [] key = "foreclosure" -> "Options Available for Your Property"
      [] key = "taxlien" -> "Help with Your Property Situation"
      [] key = "outofstate" -> "Interested in Your Out-of-State Property"

\* EMAIL_TEMPLATES[lead.type]: a template, a value inherited from
\* Object.prototype (a function or an object, without subject and body), or
\* undefined
GetTemplate(type) ==
    IF type \in TemplateKeys THEN [kind |-> "template", key |-> type]
    ELSE IF type \in ObjectPrototypeKeys THEN [kind |-> "inherited", key |-> type]
    ELSE [kind |-> "undefined", key |-> type]

\* EMAIL_TEMPLATES[lead.type] || EMAIL_TEMPLATES.outofstate
SelectTemplate(type) ==
    IF GetTemplate(type).kind = "undefined"
    THEN [kind |-> "template", key |-> "outofstate"]
    ELSE GetTemplate(type)

NoSubject == [defined |-> FALSE, prefix |-> "", text |-> ""]

\* template.subject
SubjectOf(template) ==
    IF template.kind = "template"
    THEN [defined |-> TRUE, prefix |-> "", text |-> TemplateSubject(template.key)]
    ELSE NoSubject

\* `Following up: ${template.subject}`: an undefined subject is spelled out
FollowUpSubject(template) ==
    [defined |-> TRUE, prefix |-> "Following up: ",
     text |-> IF template.kind = "template" THEN TemplateSubject(template.key)
              ELSE "undefined"]

\* template.body(...) raises a TypeError when template.body is no function
BodyRaises(template) == template.kind # "template"

\* s.split(' ')[0]: the characters before the first space
RECURSIVE SplitFirst(_)
SplitFirst(s) ==
    IF s = <<>> \/ Head(s) = " " THEN <<>>
    ELSE <<Head(s)>> \o SplitFirst(Tail(s))

There == <<"t", "h", "e", "r", "e">>

\* contact.name?.split(' ')[0] || 'there'
ContactFirstName(contact) ==
    IF contact.name.defined /\ SplitFirst(contact.name.chars) # <<>>
    THEN SplitFirst(contact.name.chars)
    ELSE There

\* lead.firstName || lead.name?.split(' ')[0] || 'there'
FirstName(lead) ==
    IF Truthy(lead.firstName) THEN lead.firstName.chars ELSE ContactFirstName(lead)

\* the composed text: the text of a template around the first name (the
\* address and the sender are left out)
NoBody == [template |-> "none", firstName |-> <<>>]

NameChars == {"A", "b", " ", "\t"}

\* the names a lead can carry
Names ==
    {Undefined} \cup {Str(s) : s \in UNION {[1..n -> NameChars] : n \in 0..MaxNameLen}}

FirstNames == {Undefined, Str(<<>>), Str(<<"A", "l">>)}

ComposeLeads == [type : LeadTypes, firstName : FirstNames, name : Names]

IdleComposer ==
    [pc |-> "idle", site |-> "none",
     lead |-> [type |-> "undefined", firstName |-> Undefined, name |-> Undefined],
     raised |-> FALSE, subject |-> NoSubject, body |-> NoBody]

\* server.js sendEmail: the template, the first name and the body are computed
\* before the try, so a TypeError of template.body leaves sendEmail
ComposeSendEmail ==
    /\ composer.pc = "input"
    /\ LET template == SelectTemplate(composer.lead.type) IN
       composer' = IF BodyRaises(template)
                   THEN [composer EXCEPT !.pc = "composed", !.site = "sendEmail",
                                         !.raised = TRUE]
                   ELSE [composer EXCEPT !.pc = "composed", !.site = "sendEmail",
                                         !.subject = SubjectOf(template),
                                         !.body = [template |-> template.key,
                                                   firstName |-> FirstName(composer.lead)]]
    /\ UNCHANGED <<leads, email_log, now, requests, sendV1, sendV2, bulk, sweep, fu, sfu>>

\* part_000 bulk send: template.body is called inside the try, among the
\* arguments of resend.emails.send, so a TypeError is caught and no message is
\* handed to the transport
ComposeBulk ==
    /\ composer.pc = "input"
    /\ LET template == SelectTemplate(composer.lead.type) IN
       composer' = IF BodyRaises(template)
                   THEN [composer EXCEPT !.pc = "composed", !.site = "bulk",
                                         !.raised = TRUE]
                   ELSE [composer EXCEPT !.pc = "composed", !.site = "bulk",
                                         !.subject = SubjectOf(template),
                                         !.body = [template |-> template.key,
                                                   firstName |-> FirstName(composer.lead)]]
    /\ UNCHANGED <<leads, email_log, now, requests, sendV1, sendV2, bulk, sweep, fu, sfu>>

\* part_000 follow-up batch: the contact is a log row (it has no firstName);
\* only template.subject is read, and the text is the fixed follow-up text
ComposeFollowUp ==
    /\ composer.pc = "input"
    /\ ~composer.lead.firstName.defined
    /\ LET template == SelectTemplate(composer.lead.type) IN
       composer' = [composer EXCEPT !.pc = "composed", !.site = "follow-up",
                                    !.subject = FollowUpSubject(template),
                                    !.body = [template |-> "follow-up",
                                              firstName |-> ContactFirstName(composer.lead)]]
    /\ UNCHANGED <<leads, email_log, now, requests, sendV1, sendV2, bulk, sweep, fu, sfu>>

----------------------------------------------------------------------------
(* The clock *)

\* the first instant of the clock, in days
StartDay == 8

Tick ==
    /\ now < MaxNow
    /\ now' = now + 1
    /\ UNCHANGED <<leads, email_log, requests, sendV1, sendV2, bulk, sweep, fu, sfu, composer>>

----------------------------------------------------------------------------
(* Specifications *)

\* the rows the leads table starts with: never contacted, contacted more than
\* seven days before the first instant, without an email
InitialRows ==
    {[email |-> <<"a", "@", "x">>, last_contacted_date |-> NullDate, status |-> "new"],
     [email |-> <<"B", "@", "X">>, last_contacted_date |-> StartDay - SevenDays - 1,
      status |-> "contacted"],
     [email |-> NoEmail, last_contacted_date |-> NullDate, status |-> "new"]}

Init ==
    /\ leads \in [LeadIds -> InitialRows]
    /\ email_log = <<>>
    /\ now = StartDay
    /\ requests = 0
    /\ sendV1 = IdleSend
    /\ sendV2 = IdleSend
    /\ bulk = IdleBulk
    /\ sweep = [r \in RunIds |-> IdleSweep]
    /\ fu = IdleFU
    /\ sfu = IdleSFU
    /\ composer = IdleComposer

\* the single-lead send of server.js
SendV1Step ==
    \/ \E id \in LeadIds \cup {MissingId}, read \in ReadOutcomes : StartSendV1(id, read)
    \/ \E t \in TransportOutcomes, w \in WriteOutcomes : SendReturnsV1(t, w)
    \/ \E w \in WriteOutcomes : LogReturnsV1(w)

\* the single-lead send of part_000
SendV2Step ==
    \/ \E id \in LeadIds \cup {MissingId}, read \in ReadOutcomes : StartSendV2(id, read)
    \/ \E t \in TransportOutcomes, w \in WriteOutcomes : SendReturnsV2(t, w)
    \/ \E w \in WriteOutcomes : UpdateReturnsV2(w)

BulkStep ==
    \/ \E body \in BulkBodies : StartBulk(body)
    \/ \E t \in TransportOutcomes, w \in WriteOutcomes : BulkSendReturns(t, w)
    \/ BulkPauseDone

SweepStep(r) ==
    \/ \E read \in ReadOutcomes : StartSweep(r, read)
    \/ \E t \in TransportOutcomes, w \in WriteOutcomes : SweepSendReturns(r, t, w)
    \/ \E w \in WriteOutcomes : SweepLogReturns(r, w)
    \/ SweepPauseDone(r)

FollowUpsStep ==
    \/ \E read \in ReadOutcomes : StartFollowUps(read)
    \/ \E read \in ReadOutcomes : FollowUpsRespond(read)

SendFollowUpsStep ==
    \/ \E read \in ReadOutcomes : StartSendFollowUps(read)
    \/ \E read \in ReadOutcomes : SendFollowUpsRead(read)
    \/ \E t \in TransportOutcomes, w \in WriteOutcomes : SendFollowUpsSendReturns(t, w)
    \/ SendFollowUpsPauseDone

\* the sends to stored leads: both single-lead endpoints and one sweep run
Next ==
    \/ SendV1Step
    \/ SendV2Step
    \/ SweepStep(1)
    \/ Tick

Spec == Init /\ [][Next]_vars

\* the send endpoints of the HTTP surface
NextEndpoints ==
    \/ SendV1Step
    \/ SendV2Step
    \/ BulkStep
    \/ SendFollowUpsStep

SpecEndpoints == Init /\ [][NextEndpoints]_vars

\* the entries earlier bulk sends and single sends have left in the log
InitialEntries ==
    [email : InputEmails, sent_at : {StartDay - 1, StartDay}, status : {"sent"}]

InitialLogs == UNION {[1..n -> InitialEntries] : n \in 0..MaxLog}

InitFollowUps ==
    /\ leads \in [LeadIds -> InitialRows]
    /\ email_log \in InitialLogs
    /\ now = StartDay
    /\ requests = 0
    /\ sendV1 = IdleSend
    /\ sendV2 = IdleSend
    /\ bulk = IdleBulk
    /\ sweep = [r \in RunIds |-> IdleSweep]
    /\ fu = IdleFU
    /\ sfu = IdleSFU
    /\ composer = IdleComposer

\* the follow-up listing and the follow-up batch over a log of earlier sends
NextFollowUps ==
    \/ FollowUpsStep
    \/ SendFollowUpsStep
    \/ Tick

SpecFollowUps == InitFollowUps /\ [][NextFollowUps]_vars

----------------------------------------------------------------------------
\* the composition of the message for one lead, at each place that composes
InitCompose ==
    /\ leads \in [LeadIds -> InitialRows]
    /\ email_log = <<>>
    /\ now = StartDay
    /\ requests = 0
    /\ sendV1 = IdleSend
    /\ sendV2 = IdleSend
    /\ bulk = IdleBulk
    /\ sweep = [r \in RunIds |-> IdleSweep]
    /\ fu = IdleFU
    /\ sfu = IdleSFU
    /\ composer \in {[IdleComposer EXCEPT !.pc = "input", !.lead = l] : l \in ComposeLeads}

NextCompose ==
    \/ ComposeSendEmail
    \/ ComposeBulk
    \/ ComposeFollowUp

SpecCompose == InitCompose /\ [][NextCompose]_vars

----------------------------------------------------------------------------
\* the batches: the bulk send, the follow-up batch, and two sweep runs, which
\* the schedule starts whether or not a run is in flight
NextBatches ==
    \/ BulkStep
    \/ SendFollowUpsStep
    \/ SweepStep(1)
    \/ SweepStep(2)

SpecBatches == Init /\ [][NextBatches]_vars

----------------------------------------------------------------------------
(* Properties *)

\* case-insensitive equality of two addresses
SameAddress(a, b) == toLowerCase(a) = toLowerCase(b)

\* the entries of the log that a follow-up request has read
SeenLog(h) == SubSeq(email_log, 1, h.seen)

\* C1: every per-lead send invocation appends exactly one email_log entry,
\* whether the delivery succeeded or failed: once an invocation for leads
\* with an email has finished (and the store has refused none of its writes),
\* the entries it added are as many as its delivery attempts.
C1_OneLogEntryPerAttempt ==
    /\ (sendV1.pc = "done" /\ sendV1.lead.email # NoEmail /\ sendV1.log # "failed")
          => sendV1.logged = sendV1.attempts
    /\ (sendV2.pc = "done" /\ sendV2.lead.email # NoEmail /\ sendV2.log # "failed"
           /\ sendV2.update # "failed")
          => sendV2.logged = sendV2.attempts
    /\ (bulk.pc = "done" /\ ~bulk.storeFailed) => bulk.logged = bulk.attempts
    /\ \A r \in RunIds :
          (sweep[r].pc = "done" /\ ~sweep[r].storeFailed)
             => sweep[r].logged = sweep[r].attempts

\* C2: a step of the single-lead send or of the sweep whose delivery has
\* failed (error returned or raised) leaves the leads table as it is.
C2_FailedDeliveryLeavesLead ==
    [][/\ (sendV1' # sendV1 /\ sendV1'.transport = "failed") => leads' = leads
       /\ (sendV2' # sendV2 /\ sendV2'.transport = "failed") => leads' = leads
       /\ \A r \in RunIds :
             (sweep'[r] # sweep[r] /\ sweep'[r].transport = "failed") => leads' = leads]_vars

\* a single-lead send has answered a failed delivery to a lead that is still
\* as never contacted
C2_Witness ==
    /\ sendV1.pc = "done"
    /\ sendV1.transport = "failed"
    /\ leads[sendV1.id].last_contacted_date = NullDate
    /\ Len(email_log) > 0

\* C3 (as stated): when a delivery to a stored lead succeeds, then once the
\* operation has finished the lead's last_contacted_date is a timestamp at or
\* after the instant the send was issued.
C3_SuccessSetsLastContacted ==
    /\ (sendV1.pc = "done" /\ sendV1.transport = "ok")
          => leads[sendV1.id].last_contacted_date >= sendV1.issued
    /\ (sendV2.pc = "done" /\ sendV2.transport = "ok")
          => leads[sendV2.id].last_contacted_date >= sendV2.issued
    /\ \A r \in RunIds :
          (sweep[r].pc = "pause" /\ sweep[r].transport = "ok")
             => leads[sweep[r].list[sweep[r].i].id].last_contacted_date >= sweep[r].issued

\* C3 (amended): when a delivery to a stored lead succeeds and the store
\* applies the update of the lead row, then once the operation has finished the
\* lead's last_contacted_date is a timestamp at or after the instant the send
\* was issued.
C3_AppliedUpdateIsRecent ==
    /\ (sendV1.pc = "done" /\ sendV1.transport = "ok" /\ sendV1.update = "ok")
          => leads[sendV1.id].last_contacted_date >= sendV1.issued
    /\ (sendV2.pc = "done" /\ sendV2.transport = "ok" /\ sendV2.update = "ok")
          => leads[sendV2.id].last_contacted_date >= sendV2.issued
    /\ \A r \in RunIds :
          (sweep[r].pc = "pause" /\ sweep[r].transport = "ok" /\ sweep[r].update = "ok")
             => leads[sweep[r].list[sweep[r].i].id].last_contacted_date >= sweep[r].issued

\* a sweep has delivered to a lead and written a timestamp later than the
\* instant the send was issued
C3_Witness ==
    /\ sweep[1].pc = "pause"
    /\ sweep[1].transport = "ok"
    /\ sweep[1].update = "ok"
    /\ leads[sweep[1].list[sweep[1].i].id].last_contacted_date > sweep[1].issued

\* the addresses of a follow-up result are those of no row of the leads table
NoLeadAddress(entries) ==
    \A n \in DOMAIN entries : \A id \in LeadIds :
        leads[id].email # NoEmail => ~SameAddress(entries[n].email, leads[id].email)

C5_CountIsTotal ==
    (fu.pc = "done" /\ fu.readLogs = "ok") =>
        \A n \in DOMAIN fu.result :
            fu.result[n].email_count =
                Cardinality({k \in 1..fu.seen :
                                SameAddress(email_log[k].email, fu.result[n].email)})

\* the listing has counted two entries that differ in letter case
C5_Witness ==
    /\ fu.pc = "done"
    /\ \E n \in DOMAIN fu.result :
          /\ fu.result[n].email_count = 2
          /\ \E k \in 1..fu.seen :
                /\ email_log[k].email # fu.result[n].email
                /\ SameAddress(email_log[k].email, fu.result[n].email)

\* the lowercased addresses of the log that have no lead row
Unconverted(log) ==
    {toLowerCase(log[k].email) : k \in {j \in DOMAIN log : log[j].email # NoEmail}}
        \ {toLowerCase(leads[id].email) : id \in LeadIds}

C7_NoSecondFollowUp ==
    sfu.pc = "sending" =>
        ~\E k \in DOMAIN email_log :
            /\ email_log[k].status = "follow-up"
            /\ SameAddress(email_log[k].email, sfu.list[sfu.i].email)

\* C8: when the write of the log entry fails (error returned or raised) after
\* a delivery that succeeded, the send is still reported as successful: the
\* single send answers success, and the bulk send counts as failed only the
\* leads without email and the leads whose delivery failed.
C8_LogFailureNotPropagated ==
    /\ (sendV1.pc = "done" /\ sendV1.transport = "ok" /\ sendV1.log = "failed")
          => sendV1.success
    /\ (sendV2.pc = "done" /\ sendV2.transport = "ok" /\ sendV2.log = "failed")
          => sendV2.success
    /\ bulk.failed = bulk.noEmail + bulk.tfails

\* C9: a transport failure (error returned or raised) on a send endpoint never
\* escapes the handler and never gives an HTTP error status: the response is
\* 200, with success false for the single send and with the failure in the
\* failed count for the batches.
C9_TransportFailureIsAResult ==
    /\ sendV1.transport = "failed" =>
          /\ sendV1.pc # "crashed"
          /\ sendV1.pc = "done" => (sendV1.http = 200 /\ ~sendV1.success)
    /\ sendV2.transport = "failed" =>
          /\ sendV2.pc # "crashed"
          /\ sendV2.pc = "done" => (sendV2.http = 200 /\ ~sendV2.success)
    /\ bulk.tfails > 0 =>
          /\ bulk.failed >= bulk.tfails
          /\ bulk.pc = "done" => bulk.http = 200
    /\ sfu.tfails > 0 =>
          /\ sfu.failed >= sfu.tfails
          /\ sfu.pc = "done" => sfu.http = 200

\* a single send and a bulk send have both answered a failed delivery
C9_Witness ==
    /\ sendV1.pc = "done"
    /\ sendV1.transport = "failed"
    /\ sendV1.http = 200
    /\ bulk.pc = "done"
    /\ bulk.tfails > 0
    /\ bulk.http = 200

\* C10: a bulk send without leads (the list absent or empty) answers 400, and
\* the request attempts no delivery and writes neither the log nor the leads.
C10_NoLeadsIsRejected ==
    [][(bulk' # bulk /\ bulk'.list = <<>>) =>
          /\ bulk'.pc = "done"
          /\ bulk'.http = 400
          /\ bulk'.attempts = 0
          /\ email_log' = email_log
          /\ leads' = leads]_vars

\* a bulk send has been answered 400
C10_Witness ==
    /\ bulk.pc = "done"
    /\ bulk.http = 400
    /\ bulk.attempts = 0
    /\ bulk.logged = 0

\* the leads of a list up to position n that have no email
WithoutEmail(list, n) ==
    {k \in 1..n : k <= Len(list) /\ list[k].email = NoEmail}

\* the leads of a list a loop at position i has reached
Reached(list, i) == IF i > Len(list) THEN Len(list) ELSE i

\* C11: in the bulk send every lead without email adds exactly one to the
\* failed count and causes no delivery attempt and no log entry, and the loop
\* goes on with the next lead: of the leads the loop has reached, those without
\* email are the ones counted as failed without a delivery, the others are the
\* ones a delivery was attempted for, and no more log entries were added than
\* deliveries attempted.
C11_NoEmailCountsFailedOnly ==
    (bulk.pc \in {"sending", "pause", "done"} /\ bulk.http # 400) =>
        LET n == Reached(bulk.list, bulk.i)
            without == Cardinality(WithoutEmail(bulk.list, n))
        IN  /\ bulk.noEmail = without
            /\ bulk.attempts = n - without
            /\ bulk.logged <= bulk.attempts
            /\ bulk.failed >= without
            /\ ~bulk.storeFailed => bulk.failed = without + bulk.tfails
            /\ bulk.pc = "done" => n = Len(bulk.list)

\* a bulk send has answered after a lead without email followed by a lead
\* with one
C11_Witness ==
    /\ bulk.pc = "done"
    /\ bulk.http = 200
    /\ Len(bulk.list) = 2
    /\ bulk.list[1].email = NoEmail
    /\ bulk.list[2].email # NoEmail
    /\ bulk.failed = 1
    /\ bulk.sent = 1
    /\ bulk.logged = 1

\* C12: in the sweep a selected lead without email is passed over: no delivery
\* is attempted for it, no log entry is written for it, its row is not updated,
\* and it is counted neither as sent nor as failed.
C12_SweepSkipsNoEmail ==
    /\ \A r \in RunIds :
          sweep[r].pc \in {"sending", "logged", "pause", "done", "crashed"} =>
              LET n == Reached(sweep[r].list, sweep[r].i)
                  without == Cardinality(WithoutEmail(sweep[r].list, n))
              IN  /\ sweep[r].attempts = n - without
                  /\ sweep[r].logged <= sweep[r].attempts
                  /\ sweep[r].sent + sweep[r].failed <= sweep[r].attempts
                  /\ sweep[r].pc \in {"pause", "done"}
                        => sweep[r].sent + sweep[r].failed = sweep[r].attempts
    /\ \A id \in LeadIds :
          leads[id].email = NoEmail => leads[id].last_contacted_date = NullDate

\* a sweep run has ended after a lead with an email and a lead without
C12_Witness ==
    /\ sweep[1].pc = "done"
    /\ Len(sweep[1].list) = 2
    /\ sweep[1].list[1].email # NoEmail
    /\ sweep[1].list[2].email = NoEmail
    /\ sweep[1].attempts = 1
    /\ sweep[1].sent + sweep[1].failed = 1

\* the leads that, in the table a run's select saw, had an email and a
\* last_contacted_date null or earlier than seven days before the run's start
StaleAtSelection(run) ==
    {id \in DOMAIN run.table :
        /\ run.table[id].email # NoEmail
        /\ \/ run.table[id].last_contacted_date = NullDate
           \/ run.table[id].last_contacted_date < run.started - SevenDays}

\* the leads a run has attempted a delivery to
Attempted(run) ==
    {run.list[k].id : k \in {j \in 1..Reached(run.list, run.i) :
                                run.list[j].email # NoEmail}}

C14_UnknownTypeGetsDefault ==
    (composer.pc = "composed" /\ composer.site \in {"sendEmail", "bulk"}) =>
        LET key == IF composer.lead.type \in TemplateKeys THEN composer.lead.type
                   ELSE "outofstate"
        IN  /\ ~composer.raised
            /\ composer.subject.defined
            /\ composer.subject.text = TemplateSubject(key)
            /\ composer.body.template = key
            /\ composer.lead.type = "probate"
                  => composer.subject.text = "Assistance with Your Inherited Property"

IsSpace(c) == c \in {" ", "\t"}

\* the first whitespace-delimited token of a string, or <<>> if there is none
RECURSIVE TakeToken(_)
TakeToken(s) ==
    IF s = <<>> \/ IsSpace(Head(s)) THEN <<>>
    ELSE <<Head(s)>> \o TakeToken(Tail(s))

RECURSIVE FirstToken(_)
FirstToken(s) ==
    IF s = <<>> THEN <<>>
    ELSE IF IsSpace(Head(s)) THEN FirstToken(Tail(s))
    ELSE TakeToken(s)

\* C15: for a lead with firstName unset, the first name of the composed text is
\* the first whitespace-delimited token of name, or "there" if name is unset
\* too; a firstName that is set is used as it is.  (A name that holds no token
\* is left open.)
C15_FirstNameIsFirstToken ==
    (composer.pc = "composed" /\ ~composer.raised) =>
        /\ Truthy(composer.lead.firstName)
              => composer.body.firstName = composer.lead.firstName.chars
        /\ (~Truthy(composer.lead.firstName) /\ ~Truthy(composer.lead.name))
              => composer.body.firstName = There
        /\ (~Truthy(composer.lead.firstName) /\ composer.lead.name.defined
               /\ FirstToken(composer.lead.name.chars) # <<>>)
              => composer.body.firstName = FirstToken(composer.lead.name.chars)

\* a step of a batch from record h to record g that starts a delivery starts it
\* either as the first of the batch or after the pause that follows the
\* previous one, for the next lead of the list that has an email
SequentialStep(h, g) ==
    (g # h /\ g.pc = "sending") =>
        \/ /\ h.pc \in {"idle", "done", "reading"}
           /\ g.attempts = 1
           /\ \A k \in 1..(g.i - 1) : g.list[k].email = NoEmail
        \/ /\ h.pc = "pause"
           /\ g.list = h.list
           /\ g.i > h.i
           /\ g.attempts = h.attempts + 1
           /\ \A k \in (h.i + 1)..(g.i - 1) : g.list[k].email = NoEmail

\* the deliveries of a batch that have been issued and have not returned
InFlight(h) == h.attempts - h.sent - h.tfails

\* the same for a sweep run, whose delivery is counted when sendEmail, with its
\* log write, has returned
SweepInFlight(h) == h.attempts - h.sent - h.failed

\* C16: within a bulk send, a follow-up batch or a sweep run the sends are
\* sequential: at most one delivery is in flight, and the delivery for the next
\* lead starts only after the previous one has returned, its log write and its
\* lead update have been issued, and the pause has elapsed; the leads are taken
\* in the order of the list.
C16_SendsAreSequential ==
    /\ [](/\ InFlight(bulk) = (IF bulk.pc = "sending" THEN 1 ELSE 0)
          /\ InFlight(sfu) = (IF sfu.pc = "sending" THEN 1 ELSE 0)
          /\ \A r \in RunIds :
                SweepInFlight(sweep[r]) = (IF sweep[r].pc \in {"sending", "logged"}
                                           THEN 1 ELSE 0))
    /\ [][/\ SequentialStep(bulk, bulk')
          /\ SequentialStep(sfu, sfu')
          /\ \A r \in RunIds : SequentialStep(sweep[r], sweep'[r])]_vars

\* a bulk send and a sweep run are both at their second delivery
C16_Witness ==
    /\ bulk.pc = "sending"
    /\ bulk.attempts = 2
    /\ bulk.sent + bulk.tfails = 1
    /\ sweep[1].pc = "sending"
    /\ sweep[1].attempts = 2
    /\ sweep[1].sent + sweep[1].failed = 1

\* a sweep run is between its select and its end
Running(run) == run.pc \in {"sending", "logged", "pause"}

\* C17: the sweep has no re-entrancy guard: whatever the other run is doing, a
\* trigger that fires starts a run; two overlapping runs can then select the
\* same stale lead, and each delivers to it and writes its last_contacted_date.
C17_TriggerStartsRunAnyway ==
    \A r \in RunIds :
        (CanStart /\ Free(sweep[r])) => ENABLED (\E read \in ReadOutcomes : StartSweep(r, read))

\* two overlapping runs have both delivered to the same lead and written its
\* last_contacted_date
C17_Witness ==
    /\ sweep[1].pc = "pause"
    /\ sweep[2].pc = "pause"
    /\ sweep[1].list[sweep[1].i].id = sweep[2].list[sweep[2].i].id
    /\ sweep[1].transport = "ok"
    /\ sweep[2].transport = "ok"
    /\ sweep[1].update = "ok"
    /\ sweep[2].update = "ok"
    /\ sweep[1].logged = 1
    /\ sweep[2].logged = 1
    /\ leads[sweep[1].list[sweep[1].i].id].last_contacted_date = now

\* the rows of the leads table that carry an address
RowsOf(email) == {id \in LeadIds : leads[id].email = email}

\* C18 (as stated): a bulk send mutates lead rows, as the sweep does: a step of
\* the bulk send that counts a delivery to the address of a stored lead as sent
\* writes the last_contacted_date of a row of that address.
C18_BulkSendMutatesLeadRow ==
    [][(bulk.pc = "sending" /\ bulk'.sent = bulk.sent + 1
          /\ RowsOf(bulk.list[bulk.i].email) # {})
         => \E id \in RowsOf(bulk.list[bulk.i].email) :
               leads'[id].last_contacted_date = now]_vars

\* C18 (amended): a sweep and a bulk send can overlap without mutual exclusion,
\* but only the sweep mutates lead rows: no step of the bulk send changes the
\* leads table (it appends to email_log only).
C18_BulkSendLeavesLeads ==
    [][bulk' # bulk => leads' = leads]_vars

\* a sweep run and a bulk send overlap, and both have delivered to the same
\* address and logged it; the row carries the sweep's write
C18_Witness ==
    /\ Running(sweep[1])
    /\ bulk.pc \in {"sending", "pause"}
    /\ bulk.sent = 1
    /\ bulk.logged = 1
    /\ sweep[1].sent = 1
    /\ sweep[1].update = "ok"
    /\ sweep[1].list[1].email = bulk.list[1].email
    /\ leads[sweep[1].list[1].id].last_contacted_date = now
    /\ Len(email_log) = 2

\* C19: for a non-empty list the response of the bulk send has
\* sent + failed = number of input leads, each lead counted once, whatever the
\* transport and the log store do.
C19_SentPlusFailedIsInputLength ==
    (bulk.pc = "done" /\ bulk.http = 200) => bulk.sent + bulk.failed = Len(bulk.list)

====
